---- MODULE Spec2Model ----
(***************************************************************************)
(* Model of logrus_influxdb.go: the InfulxDBHook, its two constructors,    *)
(* the database existence check / autocreate sequence, and Fire.           *)
(*                                                                         *)
(* The InfluxDB client is an external collaborator.  It is modelled as a   *)
(* scripted mock: `mock` holds the answers it gives to Ping, SHOW          *)
(* DATABASES and CREATE DATABASE, each Fire chooses the answer to its      *)
(* Write, and `calls` is the log of the calls the client received.         *)
(*                                                                         *)
(* Go values of type interface{} are records [type, val]; Go maps are      *)
(* functions whose DOMAIN is the set of keys present; the nil error is the *)
(* string "nil".                                                            *)
(***************************************************************************)
EXTENDS Integers, Sequences, FiniteSets, TLC

VARIABLES
    pc,          \* "start", "ready" (a hook was returned), "failed", "fatal" (runtime abort)
    args,        \* the constructor called and its arguments
    mock,        \* the answers the client gave to NewClient, Ping and the two queries
    dialed,      \* the host of the client the constructor created, "" if it created none
    hook,        \* the InfulxDBHook: client, database, tags
    ret,         \* what the constructor returned
    calls,       \* the calls the client received, in order
    nfires,      \* number of completed Fire calls
    entry,       \* the entry of the last sequential Fire
    point,       \* the point that Fire handed to Write
    wrote,       \* the error that Write returned
    fireErr,     \* the error that Fire returned
    fires,       \* per goroutine: the position and locals of its Fire
    levelOwner   \* the goroutine that last stored tags["level"], 0 if none

vars ==
    <<pc, args, mock, dialed, hook, ret, calls, nfires, entry, point, wrote, fireErr, fires,
      levelOwner>>

(***************************************************************************)
(* Program constants                                                       *)
(***************************************************************************)
DefaultHost == "localhost"
DefaultPort == 8086
DefaultDatabase == "logrus"

(***************************************************************************)
(* Bounds                                                                  *)
(***************************************************************************)
MaxFires == 2
NGoroutines == 2
MaxResults == 2
MaxSeries == 2
MaxRows == 1
MaxCells == 1

(***************************************************************************)
(* Generic helpers                                                         *)
(***************************************************************************)
SeqsUpTo(S, n) == UNION {[1..k -> S] : k \in 0..n}

Maps(K, V) == UNION {[D -> V] : D \in SUBSET K}

NoErr == "nil"

Str(s) == [type |-> "string", val |-> s]

Request(r) == [type |-> "*http.Request", val |-> r]

Other(s) == [type |-> "json.Number", val |-> s]

(***************************************************************************)
(* logrus levels and Level.String()                                        *)
(***************************************************************************)
PanicLevel == 0
FatalLevel == 1
ErrorLevel == 2
WarnLevel == 3
InfoLevel == 4
DebugLevel == 5

Levels == <<PanicLevel, FatalLevel, ErrorLevel, WarnLevel, InfoLevel, DebugLevel>>

LevelString(l) ==
    CASE l = DebugLevel -> "debug"
      [] l = InfoLevel -> "info"
      [] l = WarnLevel -> "warning"
      [] l = ErrorLevel -> "error"
      [] l = FatalLevel -> "fatal"
      [] l = PanicLevel -> "panic"
      [] OTHER -> "unknown"

(***************************************************************************)
(* getField, getRequest                                                    *)
(***************************************************************************)
getField(d, key) ==
    IF key \notin DOMAIN d THEN [val |-> "", ok |-> FALSE]
    ELSE IF d[key].type # "string" THEN [val |-> "", ok |-> FALSE]
    ELSE [val |-> d[key].val, ok |-> TRUE]

getRequestNoNilCheck(d, key) ==
    IF key \notin DOMAIN d THEN [val |-> "nil", ok |-> FALSE]
    ELSE IF d[key].type # "*http.Request" THEN [val |-> "nil", ok |-> FALSE]
    ELSE [val |-> d[key].val, ok |-> TRUE]

getRequest(d, key) ==
    IF key \notin DOMAIN d THEN [val |-> "nil", ok |-> FALSE]
    ELSE IF d[key].type # "*http.Request" \/ d[key].val = "nil"
         THEN [val |-> "nil", ok |-> FALSE]
    ELSE [val |-> d[key].val, ok |-> TRUE]

(***************************************************************************)
(* Client calls as the mock logs them                                      *)
(***************************************************************************)
PingCall == [op |-> "Ping", cmd |-> <<>>, database |-> "", rp |-> "", npoints |-> 0]

QueryCall(cmd, db) == [op |-> "Query", cmd |-> cmd, database |-> db, rp |-> "", npoints |-> 0]

WriteCall(db, rp, n) == [op |-> "Write", cmd |-> <<>>, database |-> db, rp |-> rp, npoints |-> n]

ShowCmd == <<"SHOW DATABASES">>

CreateCmd(db) == <<"create database", db>>

(***************************************************************************)
(* queryDB: the error and results the caller sees for a client response    *)
(***************************************************************************)
queryDB(resp) ==
    IF resp.err # NoErr THEN [results |-> <<>>, err |-> resp.err]
    ELSE IF resp.respErr # NoErr THEN [results |-> <<>>, err |-> resp.respErr]
    ELSE [results |-> resp.results, err |-> NoErr]

(***************************************************************************)
(* databaseExists: nil when a string cell of results[0].Series[0].Values   *)
(* equals the database, an error otherwise                                 *)
(***************************************************************************)
CellMatchesAnyType(val, database) == val.val = database

CellMatches(val, database) == val.type = "string" /\ val.val = database

databaseExists(database, resp) ==
    LET q == queryDB(resp) IN
    IF q.err # NoErr THEN q.err
    ELSE IF Len(q.results) = 0 THEN "Missing results from InfluxDB query response"
    ELSE IF Len(q.results[1].Series) = 0 THEN "Missing series from InfluxDB query response"
    ELSE LET values == q.results[1].Series[1].Values IN
         IF \E i \in 1..Len(values) : \E j \in 1..Len(values[i]) :
                CellMatches(values[i][j], database)
         THEN NoErr
         ELSE "No database exists"

(***************************************************************************)
(* autocreateDatabase: the calls it makes and the error it returns         *)
(***************************************************************************)
autocreateDatabase(database, m) ==
    LET show == QueryCall(ShowCmd, database) IN
    IF databaseExists(database, m.show) = NoErr
    THEN [calls |-> <<show>>, err |-> NoErr]
    ELSE [calls |-> <<show, QueryCall(CreateCmd(database), database)>>,
          err |-> queryDB(m.create).err]

(***************************************************************************)
(* Inputs: what callers pass and what the mocked server answers            *)
(***************************************************************************)
DatabaseArgs == {"", "mydb"}

ClientArgs == {"nil", "supplied"}

NilTags == [isNil |-> TRUE, m |-> <<>>]

TagsOf(m) == [isNil |-> FALSE, m |-> m]

TagArgs == {NilTags,
            TagsOf([k \in {"env"} |-> "prod"]),
            TagsOf([k \in {"level"} |-> "custom"])}

Hostnames == {DefaultHost, "influx.internal", "%zz"}

Cells == {Str("logrus"), Str("mydb"), Other("logrus")}

Rows == SeqsUpTo(Cells, MaxCells)

FirstSeries == {[Values |-> v] : v \in SeqsUpTo(Rows, MaxRows)}

LaterSeries == {[Values |-> <<<<Str("logrus")>>, <<Str("mydb")>>>>]}

SeriesLists ==
    {<<>>} \cup {<<f>> \o r : f \in FirstSeries, r \in SeqsUpTo(LaterSeries, MaxSeries - 1)}

FirstResults == {[Series |-> sl] : sl \in SeriesLists}

LaterResults == {[Series |-> <<[Values |-> <<<<Str("logrus")>>, <<Str("mydb")>>>>]>>]}

ResultLists ==
    {<<>>} \cup {<<f>> \o r : f \in FirstResults, r \in SeqsUpTo(LaterResults, MaxResults - 1)}

Response(err, respErr, results) == [err |-> err, respErr |-> respErr, results |-> results]

FailedResponses == {Response("ErrQuery", NoErr, <<>>), Response(NoErr, "ErrResponse", <<>>)}

ErrorWithResults ==
    Response(NoErr, "ErrResponse",
             <<[Series |-> <<[Values |-> <<<<Str("logrus")>>, <<Str("mydb")>>>>]>>]>>)

ShowResponses ==
    FailedResponses \cup {ErrorWithResults} \cup {Response(NoErr, NoErr, r) : r \in ResultLists}

CreateResponses == FailedResponses \cup {Response(NoErr, NoErr, <<[Series |-> <<>>]>>)}

NoMock ==
    [newClientErr |-> NoErr, pingErr |-> NoErr, show |-> Response(NoErr, NoErr, <<>>),
     create |-> Response(NoErr, NoErr, <<>>)]

Mocks == 
    [newClientErr : {NoErr, "ErrNewClient"}, pingErr : {NoErr, "ErrPing"},
     show : ShowResponses, create : CreateResponses]

HealthyMocks ==
    {[NoMock EXCEPT !.show = Response(NoErr, NoErr, <<[Series |-> <<[Values |-> <<<<Str(d)>>>>]>>]>>)] :
        d \in {"logrus", "mydb"}}

Replies(m, cs) ==
    [newClientErr |-> IF cs = <<>> THEN m.newClientErr ELSE NoErr,
     pingErr |-> IF Len(cs) >= 1 THEN m.pingErr ELSE NoErr,
     show |-> IF Len(cs) >= 2 THEN m.show ELSE NoMock.show,
     create |-> IF Len(cs) >= 3 THEN m.create ELSE NoMock.create]

FieldValues == {Str("web"), Request("r1"), Request("nil")}

Data ==
    {d \in Maps({"logger", "server_name", "http_request"}, FieldValues) :
        \A k \in DOMAIN d : d[k] = Request("nil") => k = "http_request"}

Entries(levels, messages, data) == [Level : levels, Message : messages, Data : data]

WriteErrs == {NoErr, "ErrWrite"}

LevelSet == {Levels[i] : i \in 1..Len(Levels)}

(***************************************************************************)
(* The constructors, as functions of their arguments and the mock          *)
(***************************************************************************)
NoHook == [client |-> "nil", database |-> "", tags |-> <<>>]

DatabaseAsGiven(database) == database

EffectiveDatabase(database) == IF database = "" THEN DefaultDatabase ELSE database

EffectiveTags(tags) == IF tags.isNil THEN <<>> ELSE tags.m

UrlParseErr(hostname) == IF hostname = "%zz" THEN "ErrURL" ELSE NoErr

Failed(err, cs, host) ==
    [ret |-> [hook |-> FALSE, err |-> err], hook |-> NoHook, calls |-> cs, dialed |-> host]

NewInfluxDBHookIgnoringPing(hostname, database, tags, m) ==
    LET db == EffectiveDatabase(database)
        tg == EffectiveTags(tags)
        auto == autocreateDatabase(db, m)
    IN  IF UrlParseErr(hostname) # NoErr THEN Failed(UrlParseErr(hostname), <<>>, "")
        ELSE IF m.newClientErr # NoErr THEN Failed(m.newClientErr, <<>>, "")
        ELSE IF auto.err # NoErr THEN Failed(auto.err, <<PingCall>> \o auto.calls, hostname)
        ELSE [ret |-> [hook |-> TRUE, err |-> NoErr],
              hook |-> [client |-> "dialed", database |-> db, tags |-> tg],
              calls |-> <<PingCall>> \o auto.calls,
              dialed |-> hostname]

NewInfluxDBHookResult(hostname, database, tags, m) ==
    LET db == EffectiveDatabase(database)
        tg == EffectiveTags(tags)
        auto == autocreateDatabase(db, m)
    IN  IF UrlParseErr(hostname) # NoErr THEN Failed(UrlParseErr(hostname), <<>>, "")
        ELSE IF m.newClientErr # NoErr THEN Failed(m.newClientErr, <<>>, "")
        ELSE IF m.pingErr # NoErr THEN Failed(m.pingErr, <<PingCall>>, hostname)
        ELSE IF auto.err # NoErr THEN Failed(auto.err, <<PingCall>> \o auto.calls, hostname)
        ELSE [ret |-> [hook |-> TRUE, err |-> NoErr],
              hook |-> [client |-> "dialed", database |-> db, tags |-> tg],
              calls |-> <<PingCall>> \o auto.calls,
              dialed |-> hostname]

NewWithClientAlwaysDialing(client, database, tags, m) ==
    NewInfluxDBHookResult(DefaultHost, EffectiveDatabase(database), TagsOf(EffectiveTags(tags)), m)

NewWithClientInfulxDBHookResult(client, database, tags, m) ==
    LET db == EffectiveDatabase(database)
        tg == EffectiveTags(tags)
    IN  IF client = "nil" THEN NewInfluxDBHookResult(DefaultHost, db, TagsOf(tg), m)
        ELSE [ret |-> [hook |-> TRUE, err |-> NoErr],
              hook |-> [client |-> client, database |-> db, tags |-> tg],
              calls |-> <<>>,
              dialed |-> ""]

(***************************************************************************)
(* Fire: the tag map after the in-place writes, and the point's fields     *)
(***************************************************************************)
SetKey(m, k, v) == [x \in DOMAIN m \cup {k} |-> IF x = k THEN v ELSE m[x]]

InjectLevelIfAbsent(tags, e) ==
    IF "level" \in DOMAIN tags THEN tags ELSE SetKey(tags, "level", LevelString(e.Level))

InjectLevel(tags, e) == SetKey(tags, "level", LevelString(e.Level))

InjectField(tags, e, key) ==
    IF getField(e.Data, key).ok THEN SetKey(tags, key, getField(e.Data, key).val) ELSE tags

FireTags(tags, e) ==
    InjectField(InjectField(InjectLevel(tags, e), e, "logger"), e, "server_name")

FireFields(e) ==
    LET base == [k \in {"message"} |-> [type |-> "string", val |-> e.Message]]
        req == getRequest(e.Data, "http_request")
        withReq == IF req.ok THEN SetKey(base, "http_request", Request(req.val)) ELSE base
    IN  SetKey(withReq, "extras", [type |-> "logrus.Fields", val |-> e.Data])

Point(tags, fields) ==
    [Measurement |-> "logrus", Tags |-> tags, Fields |-> fields, Precision |-> "s"]

FirePoint(tags, e) == Point(FireTags(tags, e), FireFields(e))

FireReturnSwallowed(writeErr) == NoErr

FireReturn(writeErr) == IF writeErr # NoErr THEN writeErr ELSE NoErr

FireCall(database) == WriteCall(database, "default", 1)

(***************************************************************************)
(* State machine: one hook, constructed once, then fired sequentially      *)
(***************************************************************************)
NoEntry == [Level |-> PanicLevel, Message |-> "", Data |-> <<>>]

NoPoint == [Measurement |-> "", Tags |-> <<>>, Fields |-> <<>>, Precision |-> ""]

Goroutines == 1..NGoroutines

Idle == [pc |-> "idle", entry |-> NoEntry, fields |-> <<>>, written |-> NoPoint, sawOwner |-> 0]

NoArgs == [ctor |-> "", hostname |-> "", client |-> "nil", database |-> "", tags |-> NilTags]

Init ==
    /\ pc = "start"
    /\ args = NoArgs
    /\ mock = NoMock
    /\ dialed = ""
    /\ hook = NoHook
    /\ ret = [hook |-> FALSE, err |-> NoErr]
    /\ calls = <<>>
    /\ nfires = 0
    /\ entry = NoEntry
    /\ point = NoPoint
    /\ wrote = NoErr
    /\ fireErr = NoErr
    /\ fires = [g \in Goroutines |-> Idle]
    /\ levelOwner = 0

Constructed(r, m) ==
    /\ pc' = IF r.ret.hook THEN "ready" ELSE "failed"
    /\ hook' = r.hook
    /\ ret' = r.ret
    /\ calls' = r.calls
    /\ dialed' = r.dialed
    /\ mock' = Replies(m, r.calls)
    /\ UNCHANGED <<nfires, entry, point, wrote, fireErr, fires, levelOwner>>

NewInfluxDBHookOn(hosts, databases, tagss, mocks) ==
    /\ pc = "start"
    /\ \E hostname \in hosts, database \in databases, tags \in tagss, m \in mocks :
          /\ args' = [ctor |-> "NewInfluxDBHook", hostname |-> hostname, client |-> "nil",
                      database |-> database, tags |-> tags]
          /\ Constructed(NewInfluxDBHookResult(hostname, database, tags, m), m)

NewWithClientInfulxDBHookOn(clients, databases, tagss, mocks) ==
    /\ pc = "start"
    /\ \E client \in clients, database \in databases, tags \in tagss, m \in mocks :
          /\ args' = [ctor |-> "NewWithClientInfulxDBHook", hostname |-> "", client |-> client,
                      database |-> database, tags |-> tags]
          /\ Constructed(NewWithClientInfulxDBHookResult(client, database, tags, m), m)

FireOn(entries) ==
    /\ pc = "ready"
    /\ nfires < MaxFires
    /\ \E e \in entries, writeErr \in WriteErrs :
          /\ entry' = e
          /\ point' = FirePoint(hook.tags, e)
          /\ hook' = [hook EXCEPT !.tags = FireTags(hook.tags, e)]
          /\ calls' = Append(calls, FireCall(hook.database))
          /\ wrote' = writeErr
          /\ fireErr' = FireReturn(writeErr)
          /\ nfires' = nfires + 1
          /\ UNCHANGED <<pc, args, mock, dialed, ret, fires, levelOwner>>

(***************************************************************************)
(* Spec: a hook built by either constructor against a healthy server, then *)
(* fired with every entry                                                  *)
(***************************************************************************)
NewInfluxDBHook == NewInfluxDBHookOn({DefaultHost}, {""}, {NilTags}, HealthyMocks)

NewWithClientInfulxDBHook ==
    NewWithClientInfulxDBHookOn({"supplied"}, {""}, TagArgs \ {NilTags}, {NoMock})

Fire == FireOn(Entries(LevelSet, {"disk low"}, Data))

Next == NewInfluxDBHook \/ NewWithClientInfulxDBHook \/ Fire

Spec == Init /\ [][Next]_vars

(***************************************************************************)
(* SpecNew: either constructor with every argument against every server    *)
(* script, then fired with one entry                                       *)
(***************************************************************************)
NewInfluxDBHookAny == NewInfluxDBHookOn(Hostnames, DatabaseArgs, TagArgs, Mocks)

NewWithClientInfulxDBHookAny ==
    NewWithClientInfulxDBHookOn(ClientArgs, DatabaseArgs, TagArgs, Mocks)

FireOne == FireOn(Entries({WarnLevel}, {"disk low"}, Maps({"logger"}, {Str("web")})))

NextNew == NewInfluxDBHookAny \/ NewWithClientInfulxDBHookAny \/ FireOne

SpecNew == Init /\ [][NextNew]_vars

(***************************************************************************)
(* SpecConc: goroutines fire on one hook with no lock around Fire.  Fire   *)
(* is split at its accesses to the shared tag map (point.Tags is hook.tags *)
(* itself).  Unsynchronised access to a Go map by two goroutines, one of   *)
(* them storing, is a data race: the accesses take effect in some order or *)
(* the runtime aborts the process.                                         *)
(***************************************************************************)
ConcEntries == Entries({WarnLevel, InfoLevel}, {"disk low"}, Maps({"logger"}, {Str("web")}))

InitConc ==
    /\ pc = "ready"
    /\ \E tags \in TagArgs :
          /\ args = [ctor |-> "NewWithClientInfulxDBHook", hostname |-> "",
                     client |-> "supplied", database |-> "", tags |-> tags]
          /\ hook = NewWithClientInfulxDBHookResult("supplied", "", tags, NoMock).hook
    /\ mock = NoMock
    /\ dialed = ""
    /\ ret = [hook |-> TRUE, err |-> NoErr]
    /\ calls = <<>>
    /\ nfires = 0
    /\ entry = NoEntry
    /\ point = NoPoint
    /\ wrote = NoErr
    /\ fireErr = NoErr
    /\ fires = [g \in Goroutines |-> Idle]
    /\ levelOwner = 0

Goto(g, next) == fires' = [fires EXCEPT ![g].pc = next]

FireBuild(g) ==
    /\ pc = "ready"
    /\ fires[g].pc = "idle"
    /\ \E e \in ConcEntries :
          fires' = [fires EXCEPT ![g] = [Idle EXCEPT !.pc = "level", !.entry = e]]
    /\ UNCHANGED <<pc, args, mock, dialed, hook, ret, calls, nfires, entry, point, wrote,
                   fireErr, levelOwner>>

FireLevel(g) ==
    /\ pc = "ready"
    /\ fires[g].pc = "level"
    /\ hook' = [hook EXCEPT !.tags = InjectLevel(hook.tags, fires[g].entry)]
    /\ levelOwner' = g
    /\ Goto(g, "logger")
    /\ UNCHANGED <<pc, args, mock, dialed, ret, calls, nfires, entry, point, wrote, fireErr>>

FireLogger(g) ==
    /\ pc = "ready"
    /\ fires[g].pc = "logger"
    /\ hook' = [hook EXCEPT !.tags = InjectField(hook.tags, fires[g].entry, "logger")]
    /\ Goto(g, "server_name")
    /\ UNCHANGED <<pc, args, mock, dialed, ret, calls, nfires, entry, point, wrote, fireErr,
                   levelOwner>>

FireServerName(g) ==
    /\ pc = "ready"
    /\ fires[g].pc = "server_name"
    /\ hook' = [hook EXCEPT !.tags = InjectField(hook.tags, fires[g].entry, "server_name")]
    /\ Goto(g, "fields")
    /\ UNCHANGED <<pc, args, mock, dialed, ret, calls, nfires, entry, point, wrote, fireErr,
                   levelOwner>>

FireSetFields(g) ==
    /\ pc = "ready"
    /\ fires[g].pc = "fields"
    /\ fires' = [fires EXCEPT ![g].pc = "write", ![g].fields = FireFields(fires[g].entry)]
    /\ UNCHANGED <<pc, args, mock, dialed, hook, ret, calls, nfires, entry, point, wrote,
                   fireErr, levelOwner>>

FireWrite(g) ==
    /\ pc = "ready"
    /\ fires[g].pc = "write"
    /\ \E writeErr \in WriteErrs :
          /\ fires' = [fires EXCEPT ![g].pc = "done",
                                    ![g].written = Point(hook.tags, fires[g].fields),
                                    ![g].sawOwner = levelOwner]
          /\ calls' = Append(calls, FireCall(hook.database))
          /\ wrote' = writeErr
          /\ fireErr' = FireReturn(writeErr)
    /\ nfires' = nfires + 1
    /\ UNCHANGED <<pc, args, mock, dialed, hook, ret, entry, point, levelOwner>>

StoresTags(g) ==
    \/ fires[g].pc = "level"
    \/ fires[g].pc \in {"logger", "server_name"}
       /\ getField(fires[g].entry.Data, fires[g].pc).ok

ReadsTags(g) == fires[g].pc = "write"

ConcurrentMapAccess ==
    /\ pc = "ready"
    /\ \E g, h \in Goroutines : g # h /\ StoresTags(g) /\ (StoresTags(h) \/ ReadsTags(h))
    /\ pc' = "fatal"
    /\ UNCHANGED <<args, mock, dialed, hook, ret, calls, nfires, entry, point, wrote, fireErr,
                   fires, levelOwner>>

NextConc ==
    \/ \E g \in Goroutines :
          \/ FireBuild(g)
          \/ FireLevel(g)
          \/ FireLogger(g)
          \/ FireServerName(g)
          \/ FireSetFields(g)
          \/ FireWrite(g)
    \/ ConcurrentMapAccess

SpecConc == InitConc /\ [][NextConc]_vars

(***************************************************************************)
(* Properties                                                              *)
(***************************************************************************)
Defaults == IF args.tags.isNil THEN <<>> ELSE args.tags.m

WantedDatabase == IF args.database = "" THEN "logrus" ELSE args.database

Fired == pc = "ready" /\ nfires > 0

IsWrite(c) == c.op = "Write"

IsQuery(c) == c.op = "Query"

NotWrite(c) == c.op # "Write"

CtorCalls == SelectSeq(calls, NotWrite)

Queries == SelectSeq(calls, IsQuery)

ShowQuery == [op |-> "Query", cmd |-> <<"SHOW DATABASES">>, database |-> WantedDatabase,
              rp |-> "", npoints |-> 0]

CreateQuery == [op |-> "Query", cmd |-> <<"create database", WantedDatabase>>,
                database |-> WantedDatabase, rp |-> "", npoints |-> 0]

Dialing == pc # "start" /\ (args.ctor = "NewInfluxDBHook" \/ args.client = "nil")

PingFailed == Dialing /\ Len(CtorCalls) >= 1 /\ mock.pingErr # NoErr

PingOK == Dialing /\ Len(CtorCalls) >= 1 /\ mock.pingErr = NoErr

ShowFailed == mock.show.err # NoErr \/ mock.show.respErr # NoErr

ShowFound ==
    /\ ~ShowFailed
    /\ Len(mock.show.results) >= 1
    /\ Len(mock.show.results[1].Series) >= 1
    /\ LET values == mock.show.results[1].Series[1].Values IN
       \E i \in 1..Len(values) : \E j \in 1..Len(values[i]) :
          values[i][j] = [type |-> "string", val |-> WantedDatabase]

CreateFailed == mock.create.err # NoErr \/ mock.create.respErr # NoErr

\* C1: when the hook's default tags have neither key, the point written by a
\* Fire has tag "logger" (resp. "server_name") equal to the entry's string at
\* that key, and has no such tag when the entry has no string there, whatever
\* earlier entries contained.
C1_TagsFollowEntry ==
    (Fired /\ DOMAIN Defaults \cap {"logger", "server_name"} = {}) =>
        \A key \in {"logger", "server_name"} :
            IF key \in DOMAIN entry.Data /\ entry.Data[key].type = "string"
            THEN key \in DOMAIN point.Tags /\ point.Tags[key] = entry.Data[key].val
            ELSE key \notin DOMAIN point.Tags

\* C2: once the ping succeeded, autocreateDatabase issues exactly one SHOW
\* DATABASES; it issues no CREATE when the first series of the first result has
\* a string cell equal to the hook's database and exactly one CREATE naming that
\* database otherwise; the constructor fails exactly when that CREATE failed.
C2_AutocreateQueries ==
    PingOK =>
        /\ Queries = IF ShowFound THEN <<ShowQuery>> ELSE <<ShowQuery, CreateQuery>>
        /\ ret.err # NoErr <=> (~ShowFound /\ CreateFailed)

\* C2 witness: the name is absent from the first series but present in a later
\* one, and one CREATE was issued and succeeded.
C2_Witness ==
    /\ PingOK
    /\ ~ShowFailed
    /\ Len(mock.show.results) >= 1
    /\ Len(mock.show.results[1].Series) >= 2
    /\ ~ShowFound
    /\ Queries = <<ShowQuery, CreateQuery>>
    /\ ret.hook

\* C3: every Fire makes exactly one client call, a Write of one point to the
\* hook's database under retention policy "default", and returns the error that
\* Write returned (nil when it returned nil).
C3_OneWritePerFire ==
    [][nfires' # nfires =>
          /\ calls' = Append(calls, [op |-> "Write", cmd |-> <<>>, database |-> hook.database,
                                     rp |-> "default", npoints |-> 1])
          /\ fireErr' = wrote']_vars

\* C3 witness: a Fire whose Write failed returned that error.
C3_Witness ==
    /\ Fired
    /\ wrote = "ErrWrite"
    /\ fireErr = "ErrWrite"
    /\ IsWrite(calls[Len(calls)])

\* C4: NewInfluxDBHook calls Ping, then SHOW DATABASES, then at most one CREATE
\* DATABASE; a failed ping gives an error, no hook and no query; after a
\* successful ping a hook is returned exactly when the database was found or the
\* CREATE succeeded, and with no matching row and a successful CREATE there is
\* exactly one CREATE and no error.
C4_ConstructAndConnect ==
    Dialing =>
        /\ CtorCalls \in {<<>>, <<PingCall>>, <<PingCall, ShowQuery>>,
                          <<PingCall, ShowQuery, CreateQuery>>}
        /\ ret.hook <=> ret.err = NoErr
        /\ PingFailed => (~ret.hook /\ ret.err # NoErr /\ CtorCalls = <<PingCall>>)
        /\ PingOK => (ret.hook <=> (ShowFound \/ (Len(CtorCalls) = 3 /\ ~CreateFailed)))
        /\ (PingOK /\ ~ShowFound /\ ~CreateFailed) =>
              (CtorCalls = <<PingCall, ShowQuery, CreateQuery>> /\ ret.err = NoErr)

\* C4 witness: host "localhost", database "", nil tags, ping succeeds, SHOW
\* DATABASES has no matching row: one "create database logrus", no error.
C4_Witness ==
    /\ pc = "ready"
    /\ args.ctor = "NewInfluxDBHook"
    /\ args.hostname = "localhost"
    /\ args.database = ""
    /\ args.tags.isNil
    /\ PingOK
    /\ ~ShowFailed
    /\ Len(mock.show.results) >= 1
    /\ Len(mock.show.results[1].Series) >= 1
    /\ Len(mock.show.results[1].Series[1].Values) >= 1
    /\ ~ShowFound
    /\ CtorCalls = <<PingCall, ShowQuery, CreateQuery>>
    /\ CreateQuery.cmd = <<"create database", "logrus">>
    /\ ret = [hook |-> TRUE, err |-> NoErr]

\* C5: the point written by a Fire has tag "level" equal to the string form of
\* that entry's level, whatever the default tags and the earlier entries were.
C5_LevelTag ==
    Fired => ("level" \in DOMAIN point.Tags /\ point.Tags["level"] = LevelString(entry.Level))

\* C5 witness: a second Fire on a hook whose default tags name "level" wrote
\* its own level.
C5_Witness ==
    /\ Fired
    /\ nfires = 2
    /\ "level" \in DOMAIN Defaults
    /\ entry.Level = DebugLevel
    /\ "level" \in DOMAIN point.Tags
    /\ point.Tags["level"] = "debug"

\* C6: the fields of the point written by a Fire are "message" (the entry's
\* message), "extras" (the entry's whole field mapping) and, exactly when the
\* entry maps "http_request" to a non-nil request, "http_request" (that
\* request); there is no other field.
C6_PointFields ==
    Fired =>
        LET d == entry.Data
            hasRequest == /\ "http_request" \in DOMAIN d
                          /\ d["http_request"].type = "*http.Request"
                          /\ d["http_request"].val # "nil"
        IN  /\ DOMAIN point.Fields =
                  {"message", "extras"} \cup (IF hasRequest THEN {"http_request"} ELSE {})
            /\ point.Fields["message"].val = entry.Message
            /\ point.Fields["extras"].val = d
            /\ hasRequest => point.Fields["http_request"] = d["http_request"]

\* C6 witness: a second Fire whose entry maps "http_request" to a nil request
\* and "logger" to a string wrote only "message" and "extras".
C6_Witness ==
    /\ Fired
    /\ nfires = 2
    /\ DOMAIN entry.Data = {"http_request", "logger"}
    /\ entry.Data["http_request"] = [type |-> "*http.Request", val |-> "nil"]
    /\ DOMAIN point.Fields = {"message", "extras"}
    /\ point.Fields["extras"].val = entry.Data

\* C7: NewWithClientInfulxDBHook with a non-nil client makes no Ping and no
\* Query, returns no error and a hook that wraps the supplied client, and
\* creates no client of its own; with a nil client it dials "localhost".
C7_WithClient ==
    (pc # "start" /\ args.ctor = "NewWithClientInfulxDBHook") =>
        /\ args.client # "nil" =>
              /\ CtorCalls = <<>>
              /\ ret = [hook |-> TRUE, err |-> NoErr]
              /\ hook.client = args.client
              /\ dialed = ""
        /\ args.client = "nil" =>
              /\ dialed \in {"", "localhost"}
              /\ CtorCalls # <<>> => (CtorCalls[1] = PingCall /\ dialed = "localhost")
              /\ ret.hook => (hook.client = "dialed" /\ dialed = "localhost")

\* C7 witness: a hook built around a supplied client has been fired and the
\* client has received nothing but that Write.
C7_Witness ==
    /\ Fired
    /\ args.ctor = "NewWithClientInfulxDBHook"
    /\ args.client = "supplied"
    /\ hook.client = "supplied"
    /\ CtorCalls = <<>>
    /\ Len(calls) = 1

\* C8: the hook's database is "logrus" when the database argument is empty and
\* the argument otherwise, for both constructors and after any number of Fire
\* calls, and every query and every Write names that database.
C8_EffectiveDatabase ==
    pc # "start" =>
        /\ ret.hook => hook.database = WantedDatabase
        /\ \A i \in 1..Len(calls) :
              /\ (IsQuery(calls[i]) \/ IsWrite(calls[i])) => calls[i].database = WantedDatabase
              /\ IsQuery(calls[i]) => calls[i] \in {ShowQuery, CreateQuery}
        /\ (PingOK /\ Len(CtorCalls) = 2) => ShowFound

\* C8 witness: a hook constructed with an empty database argument created
\* "logrus" and wrote to it twice.
C8_Witness ==
    /\ Fired
    /\ nfires = 2
    /\ args.database = ""
    /\ hook.database = "logrus"
    /\ CtorCalls = <<PingCall, ShowQuery, CreateQuery>>
    /\ calls[Len(calls)] = [op |-> "Write", cmd |-> <<>>, database |-> "logrus",
                            rp |-> "default", npoints |-> 1]

\* C9: when goroutine A wrote after goroutine B had been the last to store
\* tags["level"], A's point carries the level of B's entry: concurrent Fires
\* share the tag map, so a point can carry the other call's level.
C9_PointCarriesLastStoredLevel ==
    \A g \in Goroutines :
        (fires[g].pc = "done" /\ fires[g].sawOwner \notin {0, g}) =>
            /\ "level" \in DOMAIN fires[g].written.Tags
            /\ fires[g].written.Tags["level"] =
                   LevelString(fires[fires[g].sawOwner].entry.Level)

\* C9 witness: a goroutine has written a point whose "level" tag is not the
\* level of its own entry.
C9_Witness ==
    \E g \in Goroutines :
        /\ fires[g].pc = "done"
        /\ "level" \in DOMAIN fires[g].written.Tags
        /\ fires[g].written.Tags["level"] # LevelString(fires[g].entry.Level)

FreshFireTags(defaults, e) ==
    LET withLevel == SetKey(defaults, "level", LevelString(e.Level))
        derived == {k \in {"logger", "server_name"} :
                       k \in DOMAIN e.Data /\ e.Data[k].type = "string"}
    IN  [k \in DOMAIN withLevel \cup derived |->
            IF k \in derived THEN e.Data[k].val ELSE withLevel[k]]

\* C10: for sequential Fire calls, the point written by the hook that mutates
\* its tag map in place has the same tags as the point of a hook that copies
\* its construction-time default tags and adds the current entry's tags.
C10_SameTagsAsFreshMap == Fired => point.Tags = FreshFireTags(Defaults, entry)

====
